---- MODULE Spec2Model ----
(***************************************************************************)
(* tone-bird: createBird (src/src/bird.ts), its refresh updateNotes, its   *)
(* validator validateBirdConfig, and the loop grid of src/src/utils.ts.    *)
(*                                                                         *)
(* Numbers.  A JavaScript number is held as an integer:                    *)
(*   - bpm and pitch are whole numbers, held as they are;                  *)
(*   - beats (note.start, note.duration), seconds (the clock, lookahead,   *)
(*     retention, loop length) and milliseconds (startTime, endTime,       *)
(*     updateInterval) are held in thousandths: 0.25 s is 250, 500 ms is   *)
(*     500000.  Scale is that factor.                                      *)
(* The configurations and clock values below are chosen so that every      *)
(* product and quotient the code forms is exact in this representation     *)
(* (and in IEEE doubles: all of them are dyadic).                          *)
(*                                                                         *)
(* A configuration field is a tagged value [t, n]: t is the JavaScript     *)
(* kind ("number", "nan", "inf", "undefined", "string", "boolean",         *)
(* "function", "object", "array") and n the payload (the number; for a     *)
(* string an identifier with 0 the empty string; for a boolean 1 or 0).    *)
(***************************************************************************)
EXTENDS Integers, Sequences, FiniteSets, TLC

VARIABLES
  config,            \* the BirdConfig handed to createBird
  clock,             \* what config.timers.getCurrentTime returns now (seconds)
  status,            \* "idle" | "running" | "disposed" | "threw"
  signal,            \* birdSignal.value, the published snapshot
  timers,            \* the timer facility: the scheduled intervals [h, ms]
  updateTimer,       \* the handle createBird got from setInterval (0: none)
  nextHandle,        \* the handle the facility hands out next
  setIntervalCalls,  \* the calls made to setInterval, as [ms, h]
  cleared,           \* the handles passed to clearInterval
  clockRead,         \* whether getCurrentTime has been called
  thrown,            \* the error createBird threw
  returned           \* what the last call of getNotesByStatus returned

vars == <<config, clock, status, signal, timers, updateTimer, nextHandle,
          setIntervalCalls, cleared, clockRead, thrown, returned>>

----------------------------------------------------------------------------
(* Number representation and JavaScript arithmetic *)

Scale == 1000

\* a * b and a / b of two scaled numbers
Mul(a, b) == (a * b) \div Scale
Div(a, b) == (a * Scale) \div b

\* JavaScript's %: the remainder takes the sign of the dividend
JsRem(a, b) == IF a >= 0 THEN a % b ELSE -((-a) % b)

\* Math.floor of a scaled number, scaled
Floor(a) == (a \div Scale) * Scale

----------------------------------------------------------------------------
(* Tagged values *)

Num(n)   == [t |-> "number", n |-> n]
NaN      == [t |-> "nan", n |-> 0]
Infinity == [t |-> "inf", n |-> 0]
Undef    == [t |-> "undefined", n |-> 0]
Str(n)   == [t |-> "string", n |-> n]
Bool(b)  == [t |-> "boolean", n |-> IF b THEN 1 ELSE 0]
Fn       == [t |-> "function", n |-> 0]

\* typeof v
TypeOf(v) == IF v.t \in {"nan", "inf"} THEN "number"
             ELSE IF v.t = "array" THEN "object" ELSE v.t

\* v < c, v <= c, v > c for a value whose typeof is "number"
\* (every comparison with NaN is false; Infinity is above every c)
Lt(v, c) == v.t = "number" /\ v.n < c
Le(v, c) == v.t = "number" /\ v.n <= c
Gt(v, c) == v.t = "inf" \/ (v.t = "number" /\ v.n > c)

\* !v
Falsy(v) == \/ v.t \in {"undefined", "nan"}
            \/ (v.t \in {"number", "string", "boolean"} /\ v.n = 0)

----------------------------------------------------------------------------
(* Loop grid, src/src/utils.ts *)

MeasuresPerLoop == 16
BeatsPerLoop == 64

\* (16 * 4 * 60) / bpm, in seconds
getLoopLengthSeconds(bpm) == (16 * 4 * 60 * Scale) \div bpm

\* The same quotient for any bpm whose typeof is "number", as a tagged value
\* (3840 / NaN is NaN, 3840 / Infinity is 0, 3840 / 0 is Infinity)
getLoopLengthSecondsOfValue(bpm) ==
  IF bpm.t = "nan" THEN NaN
  ELSE IF bpm.t = "inf" THEN Num(0)
  ELSE IF bpm.n = 0 THEN Infinity
  ELSE Num((16 * 4 * 60 * Scale) \div bpm.n)

----------------------------------------------------------------------------
(* validateBirdConfig, src/src/bird.ts.  An error is [msg, i]: the message *)
(* with the index of the note or arrangement element it names (-1: none).  *)

NoError == [msg |-> "", i |-> -1]
Err(m, idx) == [msg |-> m, i |-> idx]

\* One pass of the loop over config.notes: the checks of note i (0-based)
validateNote(note, i) ==
  IF Falsy(note.id) \/ TypeOf(note.id) # "string"
    THEN Err("id must be a non-empty string", i)
  ELSE IF TypeOf(note.start) # "number" \/ Lt(note.start, 0)
    THEN Err("start must be a non-negative number", i)
  ELSE IF TypeOf(note.duration) # "number" \/ Lt(note.duration, 1)
    THEN Err("duration must be at least 0.001", i)
  ELSE IF TypeOf(note.pitch) # "number" \/ Le(note.pitch, 0)
    THEN Err("pitch must be a positive number", i)
  ELSE IF /\ note.volume.t # "undefined"
          /\ (\/ TypeOf(note.volume) # "number"
              \/ Lt(note.volume, 0) \/ Gt(note.volume, Scale))
    THEN Err("volume must be between 0 and 1", i)
  ELSE IF /\ note.pan.t # "undefined"
          /\ (\/ TypeOf(note.pan) # "number"
              \/ Lt(note.pan, -Scale) \/ Gt(note.pan, Scale))
    THEN Err("pan must be between -1 and 1", i)
  ELSE IF note.envelope.t = "undefined" THEN NoError
  ELSE LET env == note.envelope IN
    IF /\ env.attack.t # "undefined"
       /\ (TypeOf(env.attack) # "number" \/ Lt(env.attack, 0))
      THEN Err("envelope attack must be non-negative", i)
    ELSE IF /\ env.decay.t # "undefined"
            /\ (TypeOf(env.decay) # "number" \/ Lt(env.decay, 0))
      THEN Err("envelope decay must be non-negative", i)
    ELSE IF /\ env.sustain.t # "undefined"
            /\ (\/ TypeOf(env.sustain) # "number"
                \/ Lt(env.sustain, 0) \/ Gt(env.sustain, Scale))
      THEN Err("envelope sustain must be between 0 and 1", i)
    ELSE IF /\ env.release.t # "undefined"
            /\ (TypeOf(env.release) # "number" \/ Lt(env.release, 0))
      THEN Err("envelope release must be non-negative", i)
    ELSE NoError

\* for (let i = 0; i < config.notes.length; i++): from 1-based position p on
RECURSIVE validateNotes(_, _)
validateNotes(notes, p) ==
  IF p > Len(notes) THEN NoError
  ELSE LET e == validateNote(notes[p], p - 1) IN
       IF e # NoError THEN e ELSE validateNotes(notes, p + 1)

\* for (let i = 0; i < config.arrangement.length; i++): from position p on
RECURSIVE validateArrangementElements(_, _)
validateArrangementElements(arr, p) ==
  IF p > Len(arr) THEN NoError
  ELSE IF TypeOf(arr[p]) # "boolean"
    THEN Err("Arrangement element must be a boolean", p - 1)
  ELSE validateArrangementElements(arr, p + 1)

validateArrangement(arrangement) ==
  IF arrangement.t = "undefined" THEN NoError
  ELSE IF arrangement.t # "array" THEN Err("Arrangement must be an array", -1)
  ELSE IF Len(arrangement.a) # MeasuresPerLoop
    THEN Err("Arrangement must have exactly 16 elements (one per measure)", -1)
  ELSE validateArrangementElements(arrangement.a, 1)

validateWindows(cfg) ==
  IF /\ cfg.lookaheadDistance.t # "undefined"
     /\ (\/ TypeOf(cfg.lookaheadDistance) # "number"
         \/ Le(cfg.lookaheadDistance, 0))
    THEN Err("Lookahead distance must be a positive number", -1)
  ELSE IF /\ cfg.updateInterval.t # "undefined"
          /\ (\/ TypeOf(cfg.updateInterval) # "number"
              \/ Le(cfg.updateInterval, 0))
    THEN Err("Update interval must be a positive number", -1)
  ELSE IF /\ cfg.retentionTime.t # "undefined"
          /\ (\/ TypeOf(cfg.retentionTime) # "number"
              \/ Lt(cfg.retentionTime, 0))
    THEN Err("Retention time must be a non-negative number", -1)
  ELSE NoError

validateTimers(tm) ==
  IF tm.t = "undefined" THEN NoError
  ELSE IF tm.getCurrentTime.t \notin {"undefined", "function"}
    THEN Err("getCurrentTime must be a function", -1)
  ELSE IF tm.setInterval.t \notin {"undefined", "function"}
    THEN Err("setInterval must be a function", -1)
  ELSE IF tm.clearInterval.t \notin {"undefined", "function"}
    THEN Err("clearInterval must be a function", -1)
  ELSE NoError

\* Mutant of validateBirdConfig: the arrangement is checked before the notes
validateBirdConfigArrangementFirst(cfg) ==
  IF TypeOf(cfg.bpm) # "number" \/ Le(cfg.bpm, 0)
    THEN Err("BPM must be a positive number", -1)
  ELSE IF validateArrangement(cfg.arrangement) # NoError
    THEN validateArrangement(cfg.arrangement)
  ELSE IF cfg.notes.t # "array" THEN Err("Notes must be an array", -1)
  ELSE IF validateNotes(cfg.notes.a, 1) # NoError
    THEN validateNotes(cfg.notes.a, 1)
  ELSE IF validateWindows(cfg) # NoError THEN validateWindows(cfg)
  ELSE validateTimers(cfg.timers)

validateBirdConfig(cfg) ==
  IF TypeOf(cfg.bpm) # "number" \/ Le(cfg.bpm, 0)
    THEN Err("BPM must be a positive number", -1)
  ELSE IF cfg.notes.t # "array" THEN Err("Notes must be an array", -1)
  ELSE LET en == validateNotes(cfg.notes.a, 1) IN
    IF en # NoError THEN en
    ELSE LET ea == validateArrangement(cfg.arrangement) IN
      IF ea # NoError THEN ea
      ELSE LET ew == validateWindows(cfg) IN
        IF ew # NoError THEN ew
        ELSE validateTimers(cfg.timers)

----------------------------------------------------------------------------
(* updateNotes, src/src/bird.ts: the refresh.  A note instance is          *)
(* [id, note, startTime, endTime]; note is the position in config.notes of *)
(* the note object the instance refers to.  An endTime of NaN is held as   *)
(* endTimeIsNaN = TRUE beside an endTime field of 0.                       *)

DefaultLookaheadDistance == 2000
DefaultRetentionTime == 500
DefaultUpdateInterval == 50000

\* config.lookaheadDistance || 2.0
lookaheadDistanceOf(cfg) ==
  IF Falsy(cfg.lookaheadDistance) THEN DefaultLookaheadDistance
  ELSE cfg.lookaheadDistance.n

\* config.retentionTime || 0.5
retentionTimeOf(cfg) ==
  IF Falsy(cfg.retentionTime) THEN DefaultRetentionTime
  ELSE cfg.retentionTime.n

\* config.updateInterval || 50
updateIntervalOf(cfg) ==
  IF Falsy(cfg.updateInterval) THEN DefaultUpdateInterval
  ELSE cfg.updateInterval.n

\* Mutant of isMeasureActive: the arrangement mask is ignored
isMeasureActiveAlways(cfg, measure) == TRUE

\* Mutant of isMeasureActive: the mask is read one measure too far
isMeasureActiveOffByOne(cfg, measure) ==
  IF cfg.arrangement.t = "undefined" THEN TRUE
  ELSE IF measure + 1 >= MeasuresPerLoop THEN TRUE
  ELSE cfg.arrangement.a[measure + 2].n = 1

\* config.arrangement?.[measure] ?? true
isMeasureActive(cfg, measure) ==
  IF cfg.arrangement.t = "undefined" THEN TRUE
  ELSE cfg.arrangement.a[measure + 1].n = 1

\* Mutant of loopsToCheck: only the current loop iteration is ever scanned
loopsToCheckCurrentOnly(currentLoopTime, lookaheadDistance, loopLength) == 1

\* lookaheadEndLoopTime > loopLength ? 2 : 1
loopsToCheck(currentLoopTime, lookaheadDistance, loopLength) ==
  IF currentLoopTime + lookaheadDistance > loopLength THEN 2 ELSE 1

\* notes.sort((a, b) => a.startTime - b.startTime): Array.prototype.sort is
\* stable, so equal start times keep the order they were pushed in
RECURSIVE insertByStartTime(_, _)
insertByStartTime(sorted, x) ==
  IF sorted = <<>> THEN <<x>>
  ELSE IF sorted[Len(sorted)].startTime <= x.startTime THEN Append(sorted, x)
  ELSE Append(insertByStartTime(SubSeq(sorted, 1, Len(sorted) - 1), x),
              sorted[Len(sorted)])

RECURSIVE sortFrom(_, _, _)
sortFrom(s, p, acc) ==
  IF p > Len(s) THEN acc
  ELSE sortFrom(s, p + 1, insertByStartTime(acc, s[p]))

\* Mutant of sortByStartTime: the list is left in the order it was pushed in
sortByStartTimeOmitted(s) == s

sortByStartTime(s) == sortFrom(s, 1, <<>>)

\* Mutant of loopStartTimeOf: the loop offset is left out, so the next loop
\* iteration is scanned at the times of the current one
loopStartTimeWithoutOffset(currentLoopIteration, loopOffset, loopLength) ==
  currentLoopIteration * loopLength

\* Mutant of loopStartTimeOf: loop iterations are counted from the first
\* loop, not from the current one
loopStartTimeFromFirstLoop(currentLoopIteration, loopOffset, loopLength) ==
  loopOffset * loopLength

\* (currentLoopIteration + loopOffset) * loopLength
loopStartTimeOf(currentLoopIteration, loopOffset, loopLength) ==
  (currentLoopIteration + loopOffset) * loopLength

\* Mutant of measureStartTimeInLoopOf: the note is placed at its own offset
\* in the loop only, not once in every measure
measureStartTimeInLoopUnreplicated(measure, secondsPerBeat) == 0

\* measure * 4 * secondsPerBeat
measureStartTimeInLoopOf(measure, secondsPerBeat) ==
  measure * 4 * secondsPerBeat

\* Mutant of isCurrentlyPlaying: the end of the occurrence is included
isCurrentlyPlayingEndIncluded(currentTime, noteStartTimeGlobal, noteEndTimeGlobal) ==
  currentTime >= noteStartTimeGlobal /\ currentTime <= noteEndTimeGlobal

\* currentTime >= noteStartTimeGlobal && currentTime < noteEndTimeGlobal
isCurrentlyPlaying(currentTime, noteStartTimeGlobal, noteEndTimeGlobal) ==
  currentTime >= noteStartTimeGlobal /\ currentTime < noteEndTimeGlobal

\* Mutant of willPlaySoon: an occurrence starting now is not upcoming
willPlaySoonAfterNow(currentTime, noteStartTimeGlobal, lookaheadEndTime) ==
  noteStartTimeGlobal > currentTime /\ noteStartTimeGlobal < lookaheadEndTime

\* noteStartTimeGlobal >= currentTime && noteStartTimeGlobal < lookaheadEndTime
willPlaySoon(currentTime, noteStartTimeGlobal, lookaheadEndTime) ==
  noteStartTimeGlobal >= currentTime /\ noteStartTimeGlobal < lookaheadEndTime

\* Mutant of isRecentlyPlayed: both ends of the retention window are excluded
isRecentlyPlayedStrictly(currentTime, noteEndTimeGlobal, retentionStartTime) ==
  noteEndTimeGlobal > retentionStartTime /\ noteEndTimeGlobal < currentTime

\* noteEndTimeGlobal >= retentionStartTime && noteEndTimeGlobal <= currentTime
isRecentlyPlayed(currentTime, noteEndTimeGlobal, retentionStartTime) ==
  noteEndTimeGlobal >= retentionStartTime /\ noteEndTimeGlobal <= currentTime

\* The body of the three nested loops for one (loopOffset, measure, note):
\* the occurrence's times and its three classifications. A duration of NaN
\* makes noteEndTimeInLoop and noteEndTimeGlobal NaN, and every comparison
\* with NaN is false; the instance's endTime is then NaN, which the record
\* holds as endTimeIsNaN (its endTime field is 0 and stands for nothing)
occurrenceOf(cfg, currentTime, loopOffset, measure, p) ==
  LET bpm == cfg.bpm.n
      note == cfg.notes.a[p]
      loopLength == getLoopLengthSeconds(bpm)
      beatsPerSecond == (bpm * Scale) \div 60
      secondsPerBeat == Div(Scale, beatsPerSecond)
      lookaheadEndTime == currentTime + lookaheadDistanceOf(cfg)
      retentionStartTime == currentTime - retentionTimeOf(cfg)
      currentLoopIteration == Floor(Div(currentTime, loopLength)) \div Scale
      loopStartTime ==
        loopStartTimeOf(currentLoopIteration, loopOffset, loopLength)
      durationIsNaN == note.duration.t = "nan"
      noteStartTimeInLoop == Mul(note.start.n, secondsPerBeat)
      noteEndTimeInLoop ==
        noteStartTimeInLoop + Mul(note.duration.n, secondsPerBeat)
      measureStartTimeInLoop ==
        measureStartTimeInLoopOf(measure, secondsPerBeat)
      noteStartTimeGlobal ==
        loopStartTime + measureStartTimeInLoop + noteStartTimeInLoop
      noteEndTimeGlobal ==
        loopStartTime + measureStartTimeInLoop + noteEndTimeInLoop
  IN [ active |-> isMeasureActive(cfg, measure),
       noteIsCurrentlyPlaying |->
         ~durationIsNaN
           /\ isCurrentlyPlaying(currentTime, noteStartTimeGlobal,
                                 noteEndTimeGlobal),
       noteWillPlaySoon |->
         willPlaySoon(currentTime, noteStartTimeGlobal, lookaheadEndTime),
       noteRecentlyPlayed |->
         ~durationIsNaN
           /\ isRecentlyPlayed(currentTime, noteEndTimeGlobal,
                               retentionStartTime),
       instance |-> [ id |-> note.id.n, note |-> p,
                      startTime |-> noteStartTimeGlobal * 1000,
                      endTime |-> IF durationIsNaN THEN 0
                                  ELSE noteEndTimeGlobal * 1000,
                      endTimeIsNaN |-> durationIsNaN ] ]

\* The occurrences in the order the loops visit them: loopOffset, then
\* measure, then the notes in config.notes order
occurrencesVisited(cfg, currentTime) ==
  LET n == Len(cfg.notes.a)
      loopLength == getLoopLengthSeconds(cfg.bpm.n)
      currentLoopTime == JsRem(currentTime, loopLength)
      loops == loopsToCheck(currentLoopTime, lookaheadDistanceOf(cfg),
                            loopLength)
  IN [c \in 1..(loops * MeasuresPerLoop * n) |->
        occurrenceOf(cfg, currentTime,
                     (c - 1) \div (MeasuresPerLoop * n),
                     ((c - 1) \div n) % MeasuresPerLoop,
                     ((c - 1) % n) + 1)]

\* Mutant of pushed: an occurrence is pushed whatever the arrangement says
pushedInAnyMeasure(o) ==
  o.noteIsCurrentlyPlaying \/ o.noteWillPlaySoon \/ o.noteRecentlyPlayed

\* if (isMeasureActive) { ... if (playing || soon || recent) notes.push(..) }
pushed(o) ==
  o.active /\ (o.noteIsCurrentlyPlaying \/ o.noteWillPlaySoon
                 \/ o.noteRecentlyPlayed)

\* if (isMeasureActive) { ... if (noteIsCurrentlyPlaying) count++ ... }
currentlyPlayingCount(occ) ==
  Cardinality({c \in DOMAIN occ :
                 occ[c].active /\ occ[c].noteIsCurrentlyPlaying})
upcomingCount(occ) ==
  Cardinality({c \in DOMAIN occ : occ[c].active /\ occ[c].noteWillPlaySoon})
recentlyPlayedCount(occ) ==
  Cardinality({c \in DOMAIN occ : occ[c].active /\ occ[c].noteRecentlyPlayed})

\* for (let i = 0; i < 16; i++) if (config.arrangement?.[i] ?? true) push(i)
RECURSIVE activeMeasuresFrom(_, _)
activeMeasuresFrom(cfg, i) ==
  IF i >= MeasuresPerLoop THEN <<>>
  ELSE (IF isMeasureActive(cfg, i) THEN <<i>> ELSE <<>>)
         \o activeMeasuresFrom(cfg, i + 1)

\* The snapshot one call of updateNotes writes to birdSignal.value
updateNotes(cfg, currentTime) ==
  LET bpm == cfg.bpm.n
      loopLength == getLoopLengthSeconds(bpm)
      beatsPerSecond == (bpm * Scale) \div 60
      currentLoopTime == JsRem(currentTime, loopLength)
      currentLoopIteration == Floor(Div(currentTime, loopLength)) \div Scale
      currentBeat == Mul(currentTime, beatsPerSecond)
      beatInLoop == JsRem(currentBeat, BeatsPerLoop * Scale)
      currentMeasure == Floor(Div(beatInLoop, 4 * Scale)) \div Scale
      beatInMeasure == Floor(JsRem(beatInLoop, 4 * Scale)) \div Scale
      occ == occurrencesVisited(cfg, currentTime)
      kept == SelectSeq(occ, pushed)
      notes == sortByStartTime([j \in 1..Len(kept) |-> kept[j].instance])
  IN [ notes |-> notes,
       currentTime |-> currentTime,
       currentBeat |-> beatInLoop,
       currentMeasure |-> currentMeasure,
       beatInMeasure |-> beatInMeasure,
       loopIteration |-> currentLoopIteration,
       isCurrentMeasureActive |->
         IF currentMeasure \in 0..(MeasuresPerLoop - 1)
           THEN isMeasureActive(cfg, currentMeasure) ELSE TRUE,
       activeMeasures |-> activeMeasuresFrom(cfg, 0),
       loopLengthSeconds |-> loopLength,
       loopProgress |-> [num |-> currentLoopTime, den |-> loopLength],
       upcomingNotesCount |-> upcomingCount(occ),
       recentlyPlayedNotesCount |-> recentlyPlayedCount(occ),
       currentlyPlayingNotesCount |-> currentlyPlayingCount(occ) ]

----------------------------------------------------------------------------
(* The configurations and clock values explored *)

NoEnvelope ==
  [t |-> "undefined", attack |-> Undef, decay |-> Undef, sustain |-> Undef,
   release |-> Undef]

\* createNote(id, start, duration, 440, {volume: 0.5}) of the tests
MkNote(id, start, duration) ==
  [id |-> Str(id), start |-> Num(start), duration |-> Num(duration),
   pitch |-> Num(440), volume |-> Num(500), pan |-> Num(0),
   envelope |-> NoEnvelope]

NoArrangement == [t |-> "undefined", a |-> <<>>]
Arrangement(S) ==
  [t |-> "array", a |-> [i \in 1..MeasuresPerLoop |-> Bool((i - 1) \in S)]]

InjectedTimers ==
  [t |-> "object", getCurrentTime |-> Fn, setInterval |-> Fn,
   clearInterval |-> Fn]

MkConfig(bpm, notes, arrangement, lookahead, retention) ==
  [bpm |-> bpm, notes |-> [t |-> "array", a |-> notes],
   arrangement |-> arrangement, updateInterval |-> Undef,
   lookaheadDistance |-> lookahead, retentionTime |-> retention,
   timers |-> InjectedTimers]

NoteA == MkNote(1, 0, 1000)        \* beat 0, one beat long
NoteB == MkNote(2, 4000, 2000)     \* beat 4, two beats long
NoteC == MkNote(3, 2000, 1000)     \* beat 2, one beat long
NoteD == MkNote(4, 3000, 8000)     \* beat 3, eight beats long
NoteE == MkNote(5, 0, 500)         \* beat 0, half a beat long

ValidConfigs ==
  { MkConfig(Num(480), <<NoteA>>, NoArrangement, Undef, Undef),
    MkConfig(Num(480), <<NoteA, NoteB>>, NoArrangement, Undef, Undef),
    MkConfig(Num(240), <<NoteC, NoteA>>, NoArrangement, Undef, Undef),
    MkConfig(Num(480), <<NoteD>>, Arrangement({0, 1, 14, 15}), Undef, Undef),
    MkConfig(Num(480), <<NoteA, NoteC>>, Arrangement({1, 3, 15}),
             Num(1000), Num(250)),
    MkConfig(Num(480), <<NoteA>>, NoArrangement, Num(10000), Num(1000)),
    MkConfig(Num(240), <<NoteA>>, Arrangement({0, 2}), Num(1000), Num(0)),
    MkConfig(Num(120), <<NoteE>>, Arrangement({0}), Undef, Undef),
    MkConfig(Num(120), <<>>, NoArrangement, Undef, Undef),
    [MkConfig(Num(240), <<NoteA>>, NoArrangement, Undef, Undef)
       EXCEPT !.updateInterval = Num(20 * Scale)] }

InvalidConfigs ==
  { MkConfig(Num(0), <<>>, NoArrangement, Undef, Undef),
    MkConfig(Num(120), <<MkNote(0, 0, 500)>>, NoArrangement, Undef, Undef),
    MkConfig(Num(120), <<>>,
             [t |-> "array", a |-> <<Bool(TRUE), Bool(FALSE)>>], Undef, Undef),
    [MkConfig(Num(120), <<NoteE>>, NoArrangement, Undef, Undef)
       EXCEPT !.timers.setInterval = Num(5)] }

Configs == ValidConfigs \cup InvalidConfigs

\* The clock is read on a grid of ClockStep; it is followed over MaxAdvance
\* steps from each of ClockStarts (from 0, and around 32 s where the loops
\* of 120, 240 and 480 bpm all wrap), moving at most MaxStep steps at a time
ClockStep == Scale \div 4
MaxAdvance == 12
MaxStep == 2
ClockStarts == {0, 31 * Scale}
ClockValues ==
  {s + d * ClockStep : s \in ClockStarts, d \in 0..MaxAdvance}

----------------------------------------------------------------------------
(* The session: createBird, the timer's callback, dispose *)

\* No signal exists: before createBird, and after it threw
NoSignal ==
  [ notes |-> <<>>, currentTime |-> 0, currentBeat |-> 0,
    currentMeasure |-> 0, beatInMeasure |-> 0, loopIteration |-> 0,
    isCurrentMeasureActive |-> TRUE, activeMeasures |-> <<>>,
    loopLengthSeconds |-> 0, loopProgress |-> [num |-> 0, den |-> 1],
    upcomingNotesCount |-> 0, recentlyPlayedNotesCount |-> 0,
    currentlyPlayingNotesCount |-> 0 ]

\* The state the signal is created with, before the first refresh
birdSignalInitial(cfg) ==
  [ notes |-> <<>>, currentTime |-> 0, currentBeat |-> 0,
    currentMeasure |-> 0, beatInMeasure |-> 0, loopIteration |-> 0,
    isCurrentMeasureActive |-> TRUE, activeMeasures |-> <<>>,
    loopLengthSeconds |-> getLoopLengthSeconds(cfg.bpm.n),
    loopProgress |-> [num |-> 0, den |-> getLoopLengthSeconds(cfg.bpm.n)],
    upcomingNotesCount |-> 0, recentlyPlayedNotesCount |-> 0,
    currentlyPlayingNotesCount |-> 0 ]

\* No call of getNotesByStatus has returned yet
NothingReturned ==
  [ of |-> "none", currentlyPlaying |-> <<>>, upcoming |-> <<>>,
    recentlyPlayed |-> <<>> ]

\* getNotesByStatus: three filters of state.notes against the snapshot's own
\* currentTime in ms; a comparison with an endTime of NaN is false
getNotesByStatus(state) ==
  LET currentTime == state.currentTime * 1000
  IN [ of |-> "getNotesByStatus",
       currentlyPlaying |->
         SelectSeq(state.notes,
                   LAMBDA note : /\ currentTime >= note.startTime
                                 /\ ~note.endTimeIsNaN
                                 /\ currentTime < note.endTime),
       upcoming |->
         SelectSeq(state.notes, LAMBDA note : note.startTime > currentTime),
       recentlyPlayed |->
         SelectSeq(state.notes,
                   LAMBDA note : /\ ~note.endTimeIsNaN
                                 /\ note.endTime <= currentTime) ]

Init ==
  /\ config \in Configs
  /\ clock \in ClockStarts
  /\ status = "idle"
  /\ signal = NoSignal
  /\ timers = {}
  /\ updateTimer = 0
  /\ nextHandle = 1
  /\ setIntervalCalls = <<>>
  /\ cleared = {}
  /\ clockRead = FALSE
  /\ thrown = NoError
  /\ returned = NothingReturned

\* Mutant of CreateBird: the interval is scheduled before the configuration
\* is validated
CreateBirdSchedulesFirst ==
  /\ status = "idle"
  /\ timers' = timers \cup
       {[h |-> nextHandle, ms |-> updateIntervalOf(config)]}
  /\ updateTimer' = nextHandle
  /\ nextHandle' = nextHandle + 1
  /\ setIntervalCalls' = Append(setIntervalCalls,
       [ms |-> updateIntervalOf(config), h |-> nextHandle])
  /\ LET e == validateBirdConfig(config) IN
     IF e # NoError
       THEN /\ status' = "threw"
            /\ thrown' = e
            /\ UNCHANGED <<config, clock, signal, cleared, clockRead,
                           returned>>
       ELSE /\ status' = "running"
            /\ signal' = updateNotes(config, clock)
            /\ clockRead' = TRUE
            /\ UNCHANGED <<config, clock, cleared, thrown, returned>>

\* Mutant of CreateBird: the immediate refresh is left out, so the signal
\* holds its initial state until the first tick
CreateBirdWithoutRefresh ==
  /\ status = "idle"
  /\ LET e == validateBirdConfig(config) IN
     IF e # NoError
       THEN /\ status' = "threw"
            /\ thrown' = e
            /\ UNCHANGED <<config, clock, signal, timers, updateTimer,
                           nextHandle, setIntervalCalls, cleared, clockRead,
                           returned>>
       ELSE /\ status' = "running"
            /\ timers' = timers \cup
                 {[h |-> nextHandle, ms |-> updateIntervalOf(config)]}
            /\ updateTimer' = nextHandle
            /\ nextHandle' = nextHandle + 1
            /\ setIntervalCalls' = Append(setIntervalCalls,
                 [ms |-> updateIntervalOf(config), h |-> nextHandle])
            /\ signal' = birdSignalInitial(config)
            /\ UNCHANGED <<config, clock, cleared, clockRead, thrown,
                           returned>>

\* createBird(config): validate, then schedule the interval, then refresh once
CreateBird ==
  /\ status = "idle"
  /\ LET e == validateBirdConfig(config) IN
     IF e # NoError
       THEN /\ status' = "threw"
            /\ thrown' = e
            /\ UNCHANGED <<config, clock, signal, timers, updateTimer,
                           nextHandle, setIntervalCalls, cleared, clockRead,
                           returned>>
       ELSE /\ status' = "running"
            /\ timers' = timers \cup
                 {[h |-> nextHandle, ms |-> updateIntervalOf(config)]}
            /\ updateTimer' = nextHandle
            /\ nextHandle' = nextHandle + 1
            /\ setIntervalCalls' = Append(setIntervalCalls,
                 [ms |-> updateIntervalOf(config), h |-> nextHandle])
            /\ signal' = updateNotes(config, clock)
            /\ clockRead' = TRUE
            /\ UNCHANGED <<config, clock, cleared, thrown, returned>>

\* The timer facility runs the interval's callback: () => { updateNotes() }
Tick ==
  /\ status \in {"running", "disposed"}
  /\ \E t \in timers : t.h = updateTimer
  /\ signal' = updateNotes(config, clock)
  /\ clockRead' = TRUE
  /\ UNCHANGED <<config, clock, status, timers, updateTimer, nextHandle,
                 setIntervalCalls, cleared, thrown, returned>>

\* Mutant of Dispose: the interval is not cleared
DisposeLeavesTimer ==
  /\ status \in {"running", "disposed"}
  /\ status' = "disposed"
  /\ UNCHANGED <<config, clock, signal, timers, updateTimer, nextHandle,
                 setIntervalCalls, cleared, clockRead, thrown, returned>>

\* dispose: () => { clearIntervalTimer(updateTimer) }
Dispose ==
  /\ status \in {"running", "disposed"}
  /\ status' = "disposed"
  /\ timers' = {t \in timers : t.h # updateTimer}
  /\ cleared' = cleared \cup {updateTimer}
  /\ UNCHANGED <<config, clock, signal, updateTimer, nextHandle,
                 setIntervalCalls, clockRead, thrown, returned>>

\* Time passes: the injected clock returns a later value from now on
AdvanceClock ==
  /\ \E d \in 1..MaxStep :
       /\ clock + d * ClockStep \in ClockValues
       /\ clock' = clock + d * ClockStep
  /\ UNCHANGED <<config, status, signal, timers, updateTimer, nextHandle,
                 setIntervalCalls, cleared, clockRead, thrown, returned>>

Next == CreateBird \/ Tick \/ Dispose \/ AdvanceClock

Spec == Init /\ [][Next]_vars

----------------------------------------------------------------------------
(* validateBirdConfig on its own: the configurations it is applied to, with *)
(* none, one or several violations                                         *)

Envelope(attack, decay, sustain, release) ==
  [t |-> "object", attack |-> attack, decay |-> decay, sustain |-> sustain,
   release |-> release]

VNotes ==
  { NoteE,
    [NoteE EXCEPT !.id = Str(0)],
    [NoteE EXCEPT !.id = Num(3), !.start = Num(-1000)],
    [NoteE EXCEPT !.start = Str(1), !.duration = Num(0)],
    [NoteE EXCEPT !.duration = Undef, !.pan = Num(2000)],
    [NoteE EXCEPT !.pitch = Num(0), !.volume = Num(1500)],
    [NoteE EXCEPT !.volume = Num(-100), !.pan = Num(-2000)],
    [NoteE EXCEPT !.pan = Str(1),
                  !.envelope = Envelope(Num(-1), Undef, Undef, Undef)],
    [NoteE EXCEPT !.envelope = Envelope(Num(10), Num(-1), Num(2000), Undef)],
    [NoteE EXCEPT !.envelope = Envelope(Undef, Undef, Num(1500), Num(-1))],
    [NoteE EXCEPT !.envelope = Envelope(Num(10), Num(10), Num(500), Str(1))] }

VNoteLists ==
  {<<>>} \cup {<<n>> : n \in VNotes}
    \cup {<<NoteE, n>> : n \in VNotes}
    \cup {<<[NoteE EXCEPT !.pitch = Num(0), !.volume = Num(1500)], n>> :
            n \in VNotes}

VNotesFields ==
  {[t |-> "array", a |-> l] : l \in VNoteLists}
    \cup {[t |-> "undefined", a |-> <<>>]}

VArrangements ==
  { NoArrangement,
    Arrangement({0, 5}),
    [t |-> "string", a |-> <<>>],
    [t |-> "array", a |-> <<Bool(TRUE), Num(1)>>],
    [t |-> "array", a |-> [i \in 1..MeasuresPerLoop |->
                             IF i \in {4, 9} THEN Num(1) ELSE Bool(TRUE)]] }

VWindows ==
  { <<Undef, Undef, Undef>>,
    <<Num(0), Num(-1000), Num(-1)>>,
    <<Num(1000), Num(0), Num(-1)>>,
    <<Num(1000), Num(20000), Str(1)>>,
    <<Str(1), Undef, Num(0)>> }

VTimers ==
  { InjectedTimers,
    [t |-> "undefined", getCurrentTime |-> Undef, setInterval |-> Undef,
     clearInterval |-> Undef],
    [InjectedTimers EXCEPT !.getCurrentTime = Num(1), !.clearInterval = Str(1)],
    [InjectedTimers EXCEPT !.setInterval = Str(1), !.clearInterval = Num(1)],
    [InjectedTimers EXCEPT !.setInterval = Undef, !.clearInterval = Bool(TRUE)] }

ValidationConfigs ==
  { [bpm |-> b, notes |-> n, arrangement |-> a, lookaheadDistance |-> w[1],
     updateInterval |-> w[2], retentionTime |-> w[3], timers |-> tm] :
      b \in {Num(120), Num(0), Num(-60), Str(1), NaN, Infinity},
      n \in VNotesFields,
      a \in VArrangements, w \in VWindows, tm \in VTimers }

InitValidate ==
  /\ config \in ValidationConfigs
  /\ clock = 0
  /\ status = "idle"
  /\ signal = NoSignal
  /\ timers = {}
  /\ updateTimer = 0
  /\ nextHandle = 1
  /\ setIntervalCalls = <<>>
  /\ cleared = {}
  /\ clockRead = FALSE
  /\ thrown = NoError
  /\ returned = NothingReturned

\* validateBirdConfig(config) returns ("valid") or throws ("threw")
ValidateConfig ==
  /\ status = "idle"
  /\ thrown' = validateBirdConfig(config)
  /\ status' = IF thrown' = NoError THEN "valid" ELSE "threw"
  /\ UNCHANGED <<config, clock, signal, timers, updateTimer, nextHandle,
                 setIntervalCalls, cleared, clockRead, returned>>

NextValidate == ValidateConfig

SpecValidate == InitValidate /\ [][NextValidate]_vars

----------------------------------------------------------------------------
(* The session under an injected clock that may return any value, as the   *)
(* tests set it: negative values, the starts of the 16 measures of 120     *)
(* bpm, and values one loop length apart                                   *)

\* 120 bpm, one note at beat 0 half a beat long, default windows, under
\* arrangement masks (that of the tests among them), and with every measure
\* active under the windows written out
ScenarioMasks ==
  { 0..15, {}, {0}, {0, 4, 8, 12}, {1, 2, 15}, {m \in 0..15 : m % 2 = 1} }
ScenarioConfigs ==
  { MkConfig(Num(120), <<NoteE>>, Arrangement(S), Undef, Undef) :
      S \in ScenarioMasks }
    \cup { MkConfig(Num(120), <<NoteE>>, NoArrangement, Undef, Undef),
           MkConfig(Num(120), <<NoteE>>, Arrangement(0..15),
                    Num(2 * Scale), Num(Scale \div 2)) }

AnyClockConfigs == ValidConfigs \cup ScenarioConfigs

\* For the scenario configurations: the starts of the 16 measures of 120
\* bpm, values inside the first measure and inside measure 2, the same one
\* loop (32 s) later, and a value before 0
ScenarioClockValues ==
  { 2 * m * Scale : m \in 0..15 }
    \cup { 125, 250, 750, 1250 }
    \cup { 4 * Scale + d * ClockStep : d \in 0..7 }
    \cup { 32 * Scale + b : b \in {0, 250, 4000, 4750, 5750} }
    \cup { -1000 }

\* For the other configurations: values around the start and the end of a
\* loop of 480 bpm (8 s), moved by whole loops of 480, 240 and 120 bpm, and
\* values before 0
LoopShifts == {0, 8, 16, 24, 32, 56}
LoopClockValues ==
  { b + k * Scale : b \in {0, 250, 1000, 6500, 7750}, k \in LoopShifts }
    \cup { -250, -1000, -8250 }

AnyClockValues(cfg) ==
  IF cfg \in ScenarioConfigs THEN ScenarioClockValues ELSE LoopClockValues

InitAnyClock ==
  /\ config \in AnyClockConfigs
  /\ clock \in AnyClockValues(config)
  /\ status = "idle"
  /\ signal = NoSignal
  /\ timers = {}
  /\ updateTimer = 0
  /\ nextHandle = 1
  /\ setIntervalCalls = <<>>
  /\ cleared = {}
  /\ clockRead = FALSE
  /\ thrown = NoError
  /\ returned = NothingReturned

\* The injected getCurrentTime returns another value from now on
ClockReturns ==
  /\ \E t \in AnyClockValues(config) : t # clock /\ clock' = t
  /\ UNCHANGED <<config, status, signal, timers, updateTimer, nextHandle,
                 setIntervalCalls, cleared, clockRead, thrown, returned>>

NextAnyClock == CreateBird \/ Tick \/ ClockReturns

SpecAnyClock == InitAnyClock /\ [][NextAnyClock]_vars

----------------------------------------------------------------------------
(* The session under a clock that never goes back and starts before 0,     *)
(* with the accessor getNotesByStatus called between refreshes.  One of    *)
(* the configurations has a note whose duration is NaN.                    *)

NoteOfNaNDuration == [NoteA EXCEPT !.duration = NaN]

RisingClockConfigs ==
  { MkConfig(Num(480), <<NoteA>>, NoArrangement, Undef, Undef),
    MkConfig(Num(240), <<NoteA, NoteC>>, Arrangement({0, 1}), Undef, Undef),
    MkConfig(Num(120), <<NoteOfNaNDuration>>, NoArrangement, Undef, Undef),
    MkConfig(Num(120), <<NoteE, NoteOfNaNDuration>>, Arrangement({0, 15}),
             Undef, Undef) }

\* One second before 0, and one second before the 8 s loop of 480 bpm
\* reaches -8 s
RisingClockStarts == {-1 * Scale, -9 * Scale}
RisingClockValues ==
  {s + d * ClockStep : s \in RisingClockStarts, d \in 0..MaxAdvance}

InitRisingClock ==
  /\ config \in RisingClockConfigs
  /\ clock \in RisingClockStarts
  /\ status = "idle"
  /\ signal = NoSignal
  /\ timers = {}
  /\ updateTimer = 0
  /\ nextHandle = 1
  /\ setIntervalCalls = <<>>
  /\ cleared = {}
  /\ clockRead = FALSE
  /\ thrown = NoError
  /\ returned = NothingReturned

\* The injected getCurrentTime returns a later value from now on
ClockRises ==
  /\ \E d \in 1..MaxStep :
       /\ clock + d * ClockStep \in RisingClockValues
       /\ clock' = clock + d * ClockStep
  /\ UNCHANGED <<config, status, signal, timers, updateTimer, nextHandle,
                 setIntervalCalls, cleared, clockRead, thrown, returned>>

\* bird.getNotesByStatus(): reads birdSignal.value and returns the three
\* lists; the clock is not read and nothing is written
GetNotesByStatus ==
  /\ status \in {"running", "disposed"}
  /\ returned' = getNotesByStatus(signal)
  /\ UNCHANGED <<config, clock, status, signal, timers, updateTimer,
                 nextHandle, setIntervalCalls, cleared, clockRead, thrown>>

NextRisingClock == CreateBird \/ Tick \/ ClockRises \/ GetNotesByStatus

SpecRisingClock == InitRisingClock /\ [][NextRisingClock]_vars

----------------------------------------------------------------------------
(* What the claims speak of: the occurrences of the configured notes, and  *)
(* the three windows, stated from the configuration and the clock value    *)
(* alone.                                                                  *)

Published == status \in {"running", "disposed"}

\* The loop iterations whose occurrences are considered
LoopIterations == 0..6

\* lookaheadDistance (default 2.0) and retentionTime (default 0.5) as
\* configured: the default stands in only for an absent field
ConfiguredLookahead(cfg) ==
  IF cfg.lookaheadDistance.t = "undefined" THEN 2 * Scale
  ELSE cfg.lookaheadDistance.n
ConfiguredRetention(cfg) ==
  IF cfg.retentionTime.t = "undefined" THEN Scale \div 2
  ELSE cfg.retentionTime.n

ArrangementTrue(cfg, m) ==
  cfg.arrangement.t = "undefined" \/ cfg.arrangement.a[m + 1] = Bool(TRUE)

\* Occurrence [k, m, p]: note p of config.notes in measure m of iteration k
Occurrences(cfg) ==
  { [k |-> k, m |-> m, p |-> p] :
      k \in LoopIterations,
      m \in {x \in 0..15 : ArrangementTrue(cfg, x)},
      p \in 1..Len(cfg.notes.a) }
OccurrencesAnyMeasure(cfg) ==
  { [k |-> k, m |-> m, p |-> p] :
      k \in LoopIterations, m \in 0..15, p \in 1..Len(cfg.notes.a) }

\* occStart = k*loopLength + (4*m + note.start)*60/bpm, and occEnd, seconds
OccStart(cfg, o) ==
  o.k * ((64 * 60 * Scale) \div cfg.bpm.n)
    + ((4 * o.m * Scale + cfg.notes.a[o.p].start.n) * 60) \div cfg.bpm.n
OccEnd(cfg, o) ==
  OccStart(cfg, o) + (cfg.notes.a[o.p].duration.n * 60) \div cfg.bpm.n

OccPlaying(cfg, o, now) == OccStart(cfg, o) <= now /\ now < OccEnd(cfg, o)
OccUpcoming(cfg, o, now) ==
  now <= OccStart(cfg, o) /\ OccStart(cfg, o) < now + ConfiguredLookahead(cfg)
OccRecent(cfg, o, now) ==
  now - ConfiguredRetention(cfg) <= OccEnd(cfg, o) /\ OccEnd(cfg, o) <= now

\* The occurrence is in the snapshot's notes list
Present(snap, cfg, o) ==
  \E j \in 1..Len(snap.notes) :
    /\ snap.notes[j].note = o.p
    /\ snap.notes[j].startTime = OccStart(cfg, o) * 1000

\* The same three tests on an instance of the list (times in ms); no
\* comparison with an endTime of NaN holds
InstPlaying(x, now) ==
  /\ x.startTime <= now * 1000
  /\ ~x.endTimeIsNaN
  /\ now * 1000 < x.endTime
InstUpcoming(cfg, x, now) ==
  /\ now * 1000 <= x.startTime
  /\ x.startTime < (now + ConfiguredLookahead(cfg)) * 1000
InstRecent(cfg, x, now) ==
  /\ ~x.endTimeIsNaN
  /\ (now - ConfiguredRetention(cfg)) * 1000 <= x.endTime
  /\ x.endTime <= now * 1000

\* The loop iterations a refresh at now scans: the current one,
\* floor(now / loopLength), and the next when (now mod loopLength) +
\* lookahead > loopLength
ScannedLoops(cfg, now) ==
  LET L == (64 * 60 * Scale) \div cfg.bpm.n
      cur == now \div L
  IN {cur} \cup (IF JsRem(now, L) + ConfiguredLookahead(cfg) > L
                   THEN {cur + 1} ELSE {})

----------------------------------------------------------------------------
(* Claims *)

\* C1: after a refresh at clock value now, every occurrence of a configured
\* note in an active measure with now <= occStart < now + lookaheadDistance
\* is in the snapshot's notes list.
C1_UpcomingOccurrencesPresent ==
  Published =>
    \A o \in Occurrences(config) :
      OccUpcoming(config, o, signal.currentTime) => Present(signal, config, o)

\* C2: an occurrence in an active measure is in the notes list, and counted
\* in currentlyPlayingNotesCount, at every refresh with occStart <= now <
\* occEnd, also while it sounds past the end of the loop iteration it
\* started in.
C2_PlayingOccurrencesPresent ==
  Published =>
    LET playing == {o \in Occurrences(config) :
                      OccPlaying(config, o, signal.currentTime)}
    IN /\ \A o \in playing : Present(signal, config, o)
       /\ signal.currentlyPlayingNotesCount >= Cardinality(playing)

\* C3: after a refresh at now, every occurrence in an active measure with
\* now - retentionTime <= occEnd <= now is in the notes list, also one that
\* ended in the previous loop iteration when the loop has just wrapped.
C3_RecentOccurrencesPresent ==
  Published =>
    \A o \in Occurrences(config) :
      OccRecent(config, o, signal.currentTime) => Present(signal, config, o)

\* C4: every instance of a snapshot's notes list is, relative to that
\* snapshot's currentTime, currently playing, upcoming or recently played;
\* none stays once none of the three holds.
C4_NoStaleInstances ==
  Published =>
    \A j \in 1..Len(signal.notes) :
      \/ InstPlaying(signal.notes[j], signal.currentTime)
      \/ InstUpcoming(config, signal.notes[j], signal.currentTime)
      \/ InstRecent(config, signal.notes[j], signal.currentTime)

\* C5: in every published snapshot the notes list is non-decreasing by
\* startTime.
C5_SortedByStartTime ==
  Published =>
    \A j \in 1..(Len(signal.notes) - 1) :
      signal.notes[j].startTime <= signal.notes[j + 1].startTime

\* C5 witness: a snapshot in which a note later in config.notes stands
\* before an earlier one that starts up to 500 ms after it: the two were
\* pushed for the same measure in the opposite order, and the sort moved them
C5_Witness ==
  /\ Published
  /\ \E j \in 1..(Len(signal.notes) - 1) :
       /\ signal.notes[j].note > signal.notes[j + 1].note
       /\ signal.notes[j].startTime < signal.notes[j + 1].startTime
       /\ signal.notes[j + 1].startTime - signal.notes[j].startTime
            <= 500 * Scale

\* C6: whenever two instances of a snapshot have equal startTime they stand
\* in the order of their notes in config.notes, also when they come from
\* different measures.
C6_TiesInConfigOrder ==
  Published =>
    \A j \in 1..Len(signal.notes) : \A l \in 1..Len(signal.notes) :
      (j < l /\ signal.notes[j].startTime = signal.notes[l].startTime)
        => signal.notes[j].note <= signal.notes[l].note

\* C6 witness: two instances with equal startTime from different measures
C6_Witness ==
  /\ Published
  /\ \E j \in 1..Len(signal.notes) : \E l \in 1..Len(signal.notes) :
       /\ j < l
       /\ signal.notes[j].startTime = signal.notes[l].startTime
       /\ signal.notes[j].note # signal.notes[l].note

\* The occurrences of active measures in the loop iterations a refresh scans
ScannedActive(cfg, now) ==
  {o \in Occurrences(cfg) : o.k \in ScannedLoops(cfg, now)}

\* C7: a measure marked inactive contributes no instance: every instance has
\* startTime = (k*loopLength + (4*m + note.start)*60/bpm)*1000 for a scanned
\* loop iteration k and a measure m with arrangement[m] true (every measure
\* when the mask is absent), and inactive measures add nothing to the three
\* counts: the playing and upcoming counts are those of the active measures'
\* scanned occurrences, and the recently-played count is the number of listed
\* instances (all of active measures) that have ended.
C7_InactiveMeasuresContributeNothing ==
  Published =>
    LET now == signal.currentTime
        act == ScannedActive(config, now)
    IN /\ \A j \in 1..Len(signal.notes) :
            \E o \in act :
              /\ signal.notes[j].note = o.p
              /\ signal.notes[j].startTime = OccStart(config, o) * 1000
       /\ signal.currentlyPlayingNotesCount =
            Cardinality({o \in act : OccPlaying(config, o, now)})
       /\ signal.upcomingNotesCount =
            Cardinality({o \in act : OccUpcoming(config, o, now)})
       /\ signal.recentlyPlayedNotesCount =
            Cardinality({j \in 1..Len(signal.notes) :
                           /\ ~signal.notes[j].endTimeIsNaN
                           /\ signal.notes[j].endTime <= now * 1000})

\* C7 witness: a snapshot with instances, taken while an occurrence of an
\* inactive measure is sounding or about to
C7_Witness ==
  /\ Published
  /\ Len(signal.notes) > 0
  /\ \E o \in OccurrencesAnyMeasure(config) :
       /\ o.k \in ScannedLoops(config, signal.currentTime)
       /\ ~ArrangementTrue(config, o.m)
       /\ \/ OccPlaying(config, o, signal.currentTime)
          \/ OccUpcoming(config, o, signal.currentTime)

\* C8: after dispose() no write to the signal occurs: every step that ends
\* in a disposed session (dispose itself, and every later advance of the
\* clock or timer event) leaves signal.value as it was.
C8_NoWriteAfterDispose ==
  [][status' = "disposed" => signal' = signal]_vars

\* C8 witness: a disposed session whose clock has moved on to a value at
\* which a refresh would publish a different snapshot
C8_Witness ==
  /\ status = "disposed"
  /\ clock > signal.currentTime
  /\ updateNotes(config, clock).notes # signal.notes

\* C9: when the configuration fails validation, createBird throws before
\* setInterval is called and before the clock is read; no session is
\* returned and no timer is left scheduled.
C9_ThrowsBeforeAnyEffect ==
  /\ validateBirdConfig(config) # NoError => status \in {"idle", "threw"}
  /\ status = "threw" =>
       /\ thrown = validateBirdConfig(config)
       /\ thrown # NoError
       /\ setIntervalCalls = <<>>
       /\ ~clockRead
       /\ timers = {}
       /\ updateTimer = 0
       /\ signal = NoSignal

\* C9 witness: createBird threw on an invalid configuration
C9_Witness ==
  status = "threw" /\ thrown.msg = "setInterval must be a function"

\* The checks in the order C10 states, each with whether the configuration
\* violates it and the error it raises.  The bpm check is violated by a bpm
\* that is no number or is <= 0; whether NaN and Infinity ought to be
\* rejected too is C11's subject, not the order's.
IsNumber(v) == v.t = "number"
Check(bad, m, idx) == [bad |-> bad, e |-> Err(m, idx)]

NoteChecks(note, i) ==
  << Check(~(note.id.t = "string" /\ note.id.n # 0),
           "id must be a non-empty string", i),
     Check(~(IsNumber(note.start) /\ note.start.n >= 0),
           "start must be a non-negative number", i),
     Check(~(IsNumber(note.duration) /\ note.duration.n >= 1),
           "duration must be at least 0.001", i),
     Check(~(IsNumber(note.pitch) /\ note.pitch.n > 0),
           "pitch must be a positive number", i),
     Check(/\ note.volume # Undef
           /\ ~(IsNumber(note.volume) /\ note.volume.n \in 0..Scale),
           "volume must be between 0 and 1", i),
     Check(/\ note.pan # Undef
           /\ ~(IsNumber(note.pan) /\ note.pan.n \in (-Scale)..Scale),
           "pan must be between -1 and 1", i),
     Check(/\ note.envelope.t # "undefined"
           /\ note.envelope.attack # Undef
           /\ ~(IsNumber(note.envelope.attack) /\ note.envelope.attack.n >= 0),
           "envelope attack must be non-negative", i),
     Check(/\ note.envelope.t # "undefined"
           /\ note.envelope.decay # Undef
           /\ ~(IsNumber(note.envelope.decay) /\ note.envelope.decay.n >= 0),
           "envelope decay must be non-negative", i),
     Check(/\ note.envelope.t # "undefined"
           /\ note.envelope.sustain # Undef
           /\ ~(/\ IsNumber(note.envelope.sustain)
                /\ note.envelope.sustain.n \in 0..Scale),
           "envelope sustain must be between 0 and 1", i),
     Check(/\ note.envelope.t # "undefined"
           /\ note.envelope.release # Undef
           /\ ~(/\ IsNumber(note.envelope.release)
                /\ note.envelope.release.n >= 0),
           "envelope release must be non-negative", i) >>

RECURSIVE NoteChecksFrom(_, _)
NoteChecksFrom(notes, p) ==
  IF p > Len(notes) THEN <<>>
  ELSE NoteChecks(notes[p], p - 1) \o NoteChecksFrom(notes, p + 1)

ArrangementChecks(arr) ==
  IF arr.t = "undefined" THEN <<>>
  ELSE << Check(arr.t # "array", "Arrangement must be an array", -1),
          Check(arr.t = "array" /\ Len(arr.a) # 16,
                "Arrangement must have exactly 16 elements (one per measure)",
                -1) >>
       \o [i \in 1..Len(arr.a) |->
             Check(arr.a[i].t # "boolean",
                   "Arrangement element must be a boolean", i - 1)]

ChecksInOrder(cfg) ==
  << Check(cfg.bpm.t \notin {"number", "nan", "inf"}
             \/ (IsNumber(cfg.bpm) /\ cfg.bpm.n <= 0),
           "BPM must be a positive number", -1),
     Check(cfg.notes.t # "array", "Notes must be an array", -1) >>
  \o (IF cfg.notes.t = "array" THEN NoteChecksFrom(cfg.notes.a, 1) ELSE <<>>)
  \o ArrangementChecks(cfg.arrangement)
  \o << Check(/\ cfg.lookaheadDistance # Undef
              /\ ~(/\ IsNumber(cfg.lookaheadDistance)
                   /\ cfg.lookaheadDistance.n > 0),
              "Lookahead distance must be a positive number", -1),
        Check(/\ cfg.updateInterval # Undef
              /\ ~(IsNumber(cfg.updateInterval) /\ cfg.updateInterval.n > 0),
              "Update interval must be a positive number", -1),
        Check(/\ cfg.retentionTime # Undef
              /\ ~(IsNumber(cfg.retentionTime) /\ cfg.retentionTime.n >= 0),
              "Retention time must be a non-negative number", -1) >>
  \o (IF cfg.timers.t = "undefined" THEN <<>>
      ELSE << Check(cfg.timers.getCurrentTime.t \notin {"undefined", "function"},
                    "getCurrentTime must be a function", -1),
              Check(cfg.timers.setInterval.t \notin {"undefined", "function"},
                    "setInterval must be a function", -1),
              Check(cfg.timers.clearInterval.t \notin {"undefined", "function"},
                    "clearInterval must be a function", -1) >>)

IsViolated(c) == c.bad
ViolationsInOrder(cfg) == SelectSeq(ChecksInOrder(cfg), IsViolated)

\* C10: validateBirdConfig fails fast in a fixed order (bpm; notes is an
\* array; per note in index order id, start, duration, pitch, volume, pan,
\* envelope attack, decay, sustain, release; arrangement is an array, has 16
\* elements, each element boolean in index order; lookaheadDistance;
\* updateInterval; retentionTime; the timer functions): the message thrown is
\* that of the earliest violation in this order, with that note's index, and
\* nothing is thrown when there is no violation.
C10_EarliestViolationThrown ==
  status \in {"valid", "threw"} =>
    LET v == ViolationsInOrder(config)
    IN IF v = <<>> THEN status = "valid" /\ thrown = NoError
       ELSE status = "threw" /\ thrown = v[1].e

\* C10 witness: a configuration with violations in a note, in the
\* arrangement and in a later field, rejected for the note
C10_Witness ==
  /\ status = "threw"
  /\ thrown = Err("start must be a non-negative number", 1)
  /\ Len(ViolationsInOrder(config)) >= 4
  /\ \E j \in 1..Len(ViolationsInOrder(config)) :
       ViolationsInOrder(config)[j].e.msg = "Arrangement must be an array"

\* C11: createBird rejects every bpm that is not a finite positive number
\* (0, negative, NaN, +Infinity, a non-number) with the error "BPM must be a
\* positive number", so the loop length the resolver divides by is a finite
\* positive number for every configuration that passes validation.
C11_NonFinitePositiveBpmRejected ==
  status \in {"valid", "threw"} =>
    /\ ~(IsNumber(config.bpm) /\ config.bpm.n > 0) =>
         /\ status = "threw"
         /\ thrown = Err("BPM must be a positive number", -1)
    /\ status = "valid" =>
         /\ TypeOf(config.bpm) = "number"
         /\ IsNumber(getLoopLengthSecondsOfValue(config.bpm))
         /\ getLoopLengthSecondsOfValue(config.bpm).n > 0

\* C12: the retention window of every refresh is the configured retentionTime
\* for every accepted value >= 0, 0 included, and 0.5 s only when the field
\* is absent: an instance that ended before now - retentionTime is in the
\* list only if it is playing or upcoming, and recentlyPlayedNotesCount
\* counts the scanned occurrences with now - retentionTime <= occEnd <= now.
\* With retentionTime = 0 an occurrence that ended strictly before now is
\* neither listed nor counted.
C12_RetentionWindowAsConfigured ==
  Published =>
    LET now == signal.currentTime
    IN /\ \A j \in 1..Len(signal.notes) :
            signal.notes[j].endTime
                < (now - ConfiguredRetention(config)) * 1000
              => \/ InstPlaying(signal.notes[j], now)
                 \/ InstUpcoming(config, signal.notes[j], now)
       /\ signal.recentlyPlayedNotesCount =
            Cardinality({o \in ScannedActive(config, now) :
                           OccRecent(config, o, now)})

\* C13: for every valid configuration and every value the clock returns
\* (positive, zero or negative), each published snapshot has currentMeasure
\* in [0,15], beatInMeasure in [0,4) and currentBeat in [0,64).
C13_PositionWithinLoop ==
  Published =>
    /\ signal.currentMeasure \in 0..15
    /\ 0 <= signal.beatInMeasure /\ signal.beatInMeasure < 4
    /\ 0 <= signal.currentBeat /\ signal.currentBeat < 64 * Scale

\* C15: each occurrence is emitted at most once per snapshot: no two
\* instances of a snapshot's notes list refer to the same note and have the
\* same startTime, also when the occurrence satisfies more than one of the
\* playing, upcoming and recently-played tests or when two loop iterations
\* are scanned.
C15_OccurrenceEmittedOnce ==
  Published =>
    \A j \in 1..Len(signal.notes) : \A l \in 1..Len(signal.notes) :
      (/\ signal.notes[j].note = signal.notes[l].note
       /\ signal.notes[j].startTime = signal.notes[l].startTime) => j = l

\* C15 witness: a snapshot whose refresh scanned two loop iterations and
\* listed the same note from both, one of its instances being playing and
\* upcoming at once (it starts exactly now)
C15_Witness ==
  /\ Published
  /\ Cardinality(ScannedLoops(config, signal.currentTime)) = 2
  /\ \E j \in 1..Len(signal.notes) : \E l \in 1..Len(signal.notes) :
       /\ InstPlaying(signal.notes[j], signal.currentTime)
       /\ InstUpcoming(config, signal.notes[j], signal.currentTime)
       /\ signal.notes[l].note = signal.notes[j].note
       /\ signal.notes[l].startTime >=
            (signal.loopIteration + 1) * signal.loopLengthSeconds * 1000

\* C16: the loop repeats every 16 measures: for a clock value now >= 0, the
\* snapshot of a refresh at now + loopLengthSeconds has the same currentBeat,
\* currentMeasure, beatInMeasure, loopProgress and three counts as the
\* snapshot at now, loopIteration larger by exactly 1, and the same sequence
\* of instances with every startTime and endTime larger by
\* loopLengthSeconds * 1000.
C16_LoopRepeats ==
  [][ ( /\ Published
        /\ status' = status
        /\ signal.currentTime >= 0
        /\ signal'.currentTime =
             signal.currentTime + signal.loopLengthSeconds )
      => LET shift == signal.loopLengthSeconds * 1000
         IN /\ signal'.currentBeat = signal.currentBeat
            /\ signal'.currentMeasure = signal.currentMeasure
            /\ signal'.beatInMeasure = signal.beatInMeasure
            /\ signal'.loopProgress = signal.loopProgress
            /\ signal'.currentlyPlayingNotesCount =
                 signal.currentlyPlayingNotesCount
            /\ signal'.upcomingNotesCount = signal.upcomingNotesCount
            /\ signal'.recentlyPlayedNotesCount =
                 signal.recentlyPlayedNotesCount
            /\ signal'.loopIteration = signal.loopIteration + 1
            /\ Len(signal'.notes) = Len(signal.notes)
            /\ \A j \in 1..Len(signal.notes) :
                 signal'.notes[j] =
                   [signal.notes[j] EXCEPT !.startTime = @ + shift,
                                           !.endTime = @ + shift]
    ]_vars

\* C16 witness: a snapshot with instances of two loop iterations, taken in a
\* later loop iteration at a clock value that is one loop length after
\* another value >= 0 the clock returns
C16_Witness ==
  /\ Published
  /\ signal.loopIteration >= 1
  /\ signal.currentTime - signal.loopLengthSeconds >= 0
  /\ signal.currentTime - signal.loopLengthSeconds \in AnyClockValues(config)
  /\ \E j \in 1..Len(signal.notes) : \E l \in 1..Len(signal.notes) :
       /\ InstPlaying(signal.notes[j], signal.currentTime)
       /\ signal.notes[l].startTime >=
            (signal.loopIteration + 1) * signal.loopLengthSeconds * 1000

\* updateInterval as configured, in ms: 50 when the field is absent
ConfiguredUpdateInterval(cfg) ==
  IF cfg.updateInterval.t = "undefined" THEN 50 * Scale
  ELSE cfg.updateInterval.n

\* C17: a successful createBird calls setInterval exactly once, with the
\* configured updateInterval (50 ms when absent), and refreshes once before
\* it returns, so the signal holds a snapshot of the construction-time clock
\* value and not its initial state; no later step calls setInterval again;
\* dispose() calls clearInterval with exactly the handle setInterval
\* returned.
C17_OneIntervalOneRefreshOneClear ==
  [][ /\ (status = "idle" /\ status' = "running") =>
           /\ Len(setIntervalCalls') = 1
           /\ setIntervalCalls'[1].ms = ConfiguredUpdateInterval(config)
           /\ updateTimer' = setIntervalCalls'[1].h
           /\ timers' = {[h |-> setIntervalCalls'[1].h,
                          ms |-> ConfiguredUpdateInterval(config)]}
           /\ clockRead'
           /\ signal'.currentTime = clock
           /\ signal' # birdSignalInitial(config)
      /\ status # "idle" => setIntervalCalls' = setIntervalCalls
      /\ (status = "running" /\ status' = "disposed") =>
           /\ Len(setIntervalCalls) = 1
           /\ cleared' = {setIntervalCalls[1].h}
    ]_vars

\* C17 witness: a session created at 31 s with updateInterval 20 ms, then
\* disposed
C17_Witness ==
  /\ status = "disposed"
  /\ Len(setIntervalCalls) = 1
  /\ setIntervalCalls[1].ms = 20 * Scale
  /\ cleared = {setIntervalCalls[1].h}
  /\ signal.currentTime = 31 * Scale

\* The scenario of C18 and C19: 120 bpm, a single note with start 0 and
\* duration 0.5 beats, an arrangement mask, default lookahead and retention
OneShortNoteAt120(cfg) ==
  /\ cfg.bpm = Num(120)
  /\ Len(cfg.notes.a) = 1
  /\ cfg.notes.a[1].start = Num(0)
  /\ cfg.notes.a[1].duration = Num(Scale \div 2)
MaskedDefaultWindows(cfg) ==
  /\ cfg.arrangement.t = "array"
  /\ cfg.lookaheadDistance = Undef
  /\ cfg.retentionTime = Undef

\* C18: in that scenario, under any arrangement mask, a refresh at the exact
\* start of measure m (now = 2*m seconds, m in 0..15) yields a notes list of
\* exactly one instance (the note at its offset in measure m) when
\* arrangement[m] is true, and an empty list when it is false: the note is
\* replicated in every active measure, not only in measure floor(start/4).
C18_OneInstanceAtActiveMeasureStart ==
  ( /\ Published
    /\ OneShortNoteAt120(config) /\ MaskedDefaultWindows(config)
    /\ \E m \in 0..15 : signal.currentTime = 2 * m * Scale )
  => LET m == signal.currentTime \div (2 * Scale)
     IN IF config.arrangement.a[m + 1] = Bool(TRUE)
          THEN /\ Len(signal.notes) = 1
               /\ signal.notes[1].note = 1
               /\ signal.notes[1].startTime = signal.currentTime * 1000
          ELSE signal.notes = <<>>

\* C18 witness: under the mask of the tests (measures 0, 4, 8 and 12), the
\* snapshot at the start of measure 12 with its one instance
C18_Witness ==
  /\ Published
  /\ OneShortNoteAt120(config)
  /\ config.arrangement = Arrangement({0, 4, 8, 12})
  /\ signal.currentTime = 24 * Scale
  /\ Len(signal.notes) = 1

\* C19: 120 bpm, a mask in which only index 0 is true, one note with start 0
\* and duration 0.5 beats, default lookahead (2.0 s) and retention (0.5 s):
\* at every refresh whose clock value lies in measure 2 of a loop
\* (4 <= now mod 32 < 6) the notes list is empty and the three counts are 0.
C19_NothingInInactiveMeasureTwo ==
  ( /\ Published
    /\ OneShortNoteAt120(config) /\ MaskedDefaultWindows(config)
    /\ config.arrangement = Arrangement({0})
    /\ 4 * Scale <= signal.currentTime % (32 * Scale)
    /\ signal.currentTime % (32 * Scale) < 6 * Scale )
  => /\ signal.notes = <<>>
     /\ signal.currentlyPlayingNotesCount = 0
     /\ signal.upcomingNotesCount = 0
     /\ signal.recentlyPlayedNotesCount = 0

\* C19 witness: the empty snapshot of that session inside measure 2 of the
\* second loop, 36.75 s
C19_Witness ==
  /\ Published
  /\ OneShortNoteAt120(config)
  /\ config.arrangement = Arrangement({0})
  /\ signal.currentTime = 36 * Scale + 3 * ClockStep
  /\ signal.currentMeasure = 2
  /\ signal.notes = <<>>

\* The scenario of C20: 120 bpm, one note with start 0 and duration 0.5
\* beats, every measure active, lookahead 2.0 s and retention 0.5 s
AllActiveTwoSecondsHalfSecond(cfg) ==
  /\ OneShortNoteAt120(cfg)
  /\ \A m \in 0..15 : ArrangementTrue(cfg, m)
  /\ ConfiguredLookahead(cfg) = 2 * Scale
  /\ ConfiguredRetention(cfg) = Scale \div 2

\* The note's occurrence in measure 0 of the first loop
FirstOccurrence == [k |-> 0, m |-> 0, p |-> 1]

\* C20: in that scenario, in the snapshot computed at now = 0.25 s the
\* note's measure-0 occurrence appears as currently playing: it is listed,
\* occStart <= now < occEnd, and currentlyPlayingNotesCount >= 1.
C20_PlayingAtQuarterSecond ==
  ( /\ Published
    /\ AllActiveTwoSecondsHalfSecond(config)
    /\ signal.currentTime = Scale \div 4 )
  => /\ Present(signal, config, FirstOccurrence)
     /\ OccPlaying(config, FirstOccurrence, signal.currentTime)
     /\ signal.currentlyPlayingNotesCount >= 1

\* C20 as amended: the occurrence lasts 0.5 beats, 0.25 s at 120 bpm, and
\* ends at 0.25 s.  It appears as currently playing in every snapshot with
\* 0 <= now < 0.25 s; in the snapshot at now = 0.25 s it is listed as
\* recently played (occEnd = now), currentlyPlayingNotesCount is 0 and
\* recentlyPlayedNotesCount is 1.
C20_PlayingBeforeQuarterSecondRecentAtIt ==
  ( Published /\ AllActiveTwoSecondsHalfSecond(config) )
  => /\ ( 0 <= signal.currentTime /\ signal.currentTime < Scale \div 4 ) =>
          /\ Present(signal, config, FirstOccurrence)
          /\ OccPlaying(config, FirstOccurrence, signal.currentTime)
          /\ signal.currentlyPlayingNotesCount >= 1
     /\ signal.currentTime = Scale \div 4 =>
          /\ Present(signal, config, FirstOccurrence)
          /\ OccEnd(config, FirstOccurrence) = signal.currentTime
          /\ OccRecent(config, FirstOccurrence, signal.currentTime)
          /\ signal.currentlyPlayingNotesCount = 0
          /\ signal.recentlyPlayedNotesCount = 1

\* C20 witness: the snapshot at 0.25 s of the session configured with both
\* windows written out, its first instance ending exactly now
C20_Witness ==
  /\ Published
  /\ AllActiveTwoSecondsHalfSecond(config)
  /\ config.lookaheadDistance = Num(2 * Scale)
  /\ signal.currentTime = Scale \div 4
  /\ Len(signal.notes) >= 1
  /\ signal.notes[1].endTime = signal.currentTime * 1000

\* C21: across the successive snapshots of one session whose clock never
\* goes back, loopIteration is never negative and never decreases from one
\* snapshot to the next.
C21_LoopIterationNonNegativeNonDecreasing ==
  [][ /\ Published' => signal'.loopIteration >= 0
      /\ (Published /\ Published')
           => signal'.loopIteration >= signal.loopIteration ]_vars

\* C22: for every configuration validateBirdConfig accepts, every instance
\* of every snapshot has an endTime greater than its startTime, and
\* endTime - startTime = note.duration * 60000 / bpm milliseconds.
C22_EndTimeAfterStartTime ==
  (Published /\ validateBirdConfig(config) = NoError) =>
    \A j \in 1..Len(signal.notes) :
      LET x == signal.notes[j]
      IN /\ ~x.endTimeIsNaN
         /\ x.endTime > x.startTime
         /\ x.endTime - x.startTime
              = (config.notes.a[x.note].duration.n * 60000) \div config.bpm.n

\* lookaheadDistance and retentionTime are left at their defaults
DefaultWindows(cfg) ==
  cfg.lookaheadDistance.t = "undefined" /\ cfg.retentionTime.t = "undefined"

\* How many of the three tests an instance of the list passes at now
TestsPassed(cfg, x, now) ==
  (IF InstPlaying(x, now) THEN 1 ELSE 0)
    + (IF InstUpcoming(cfg, x, now) THEN 1 ELSE 0)
    + (IF InstRecent(cfg, x, now) THEN 1 ELSE 0)

CountsSum ==
  signal.currentlyPlayingNotesCount + signal.upcomingNotesCount
    + signal.recentlyPlayedNotesCount

\* C23 as claimed: with the default windows no instance passes more than one
\* of the three tests, and the three counts add up to notes.length.
C23_CountsSumToLength ==
  (Published /\ DefaultWindows(config)) =>
    /\ \A j \in 1..Len(signal.notes) :
         TestsPassed(config, signal.notes[j], signal.currentTime) <= 1
    /\ CountsSum = Len(signal.notes)

\* C23, amended: with the default windows an instance passes one of the
\* three tests, or two when it is both currently playing and upcoming,
\* which it is exactly when it starts at the snapshot's currentTime and
\* ends after it; the three counts add up to notes.length plus the number
\* of such instances.
C23_CountsSumToLengthPlusStartingNow ==
  (Published /\ DefaultWindows(config)) =>
    LET now == signal.currentTime
        both == {j \in 1..Len(signal.notes) :
                   /\ InstPlaying(signal.notes[j], now)
                   /\ InstUpcoming(config, signal.notes[j], now)}
    IN /\ \A j \in 1..Len(signal.notes) :
            LET x == signal.notes[j]
            IN /\ TestsPassed(config, x, now) = (IF j \in both THEN 2 ELSE 1)
               /\ j \in both <=>
                    /\ x.startTime = now * 1000
                    /\ ~x.endTimeIsNaN
                    /\ x.endTime > now * 1000
       /\ CountsSum = Len(signal.notes) + Cardinality(both)

\* C23 witness: a snapshot under the default windows that holds an instance
\* starting at its currentTime beside one that does not, with the counts
\* adding up to one more than the length of the list
C23_Witness ==
  /\ Published
  /\ DefaultWindows(config)
  /\ \E j, k \in 1..Len(signal.notes) :
       /\ signal.notes[j].startTime = signal.currentTime * 1000
       /\ signal.notes[k].startTime # signal.currentTime * 1000
  /\ CountsSum = Len(signal.notes) + 1

\* The measure a note's own start beat lies in: floor(note.start / 4)
HomeMeasure(cfg, p) == cfg.notes.a[p].start.n \div (4 * Scale)

\* The occurrences of the scanned loop iterations, in every measure
ScannedAnyMeasure(cfg, now) ==
  { [k |-> k, m |-> m, p |-> p] :
      k \in ScannedLoops(cfg, now), m \in 0..15, p \in 1..Len(cfg.notes.a) }

\* C24 as claimed: measure gating uses the note's own start beat only, so
\* every instance of a snapshot belongs to a note whose home measure
\* floor(note.start / 4) is active.
C24_GatedByHomeMeasure ==
  Published =>
    \A j \in 1..Len(signal.notes) :
      ArrangementTrue(config, HomeMeasure(config, signal.notes[j].note))

\* C24, amended: measure gating uses the index of the scanned measure only.
\* In each scanned loop iteration a note is placed in every measure m of
\* 0..15, at loopStart + (4*m + note.start) * 60/bpm, and that occurrence is
\* eligible exactly when arrangement[m] is true (or there is no
\* arrangement): every instance is at such a place in an active measure, and
\* an upcoming occurrence of a scanned iteration is in the list exactly when
\* its measure is active, wherever the note's home measure is.
C24_GatedByScannedMeasure ==
  Published =>
    LET now == signal.currentTime
    IN /\ \A j \in 1..Len(signal.notes) :
            \E o \in ScannedAnyMeasure(config, now) :
              /\ o.p = signal.notes[j].note
              /\ signal.notes[j].startTime = OccStart(config, o) * 1000
              /\ ArrangementTrue(config, o.m)
       /\ \A o \in ScannedAnyMeasure(config, now) :
            OccUpcoming(config, o, now) =>
              (Present(signal, config, o) <=> ArrangementTrue(config, o.m))

\* C24 witness: a snapshot with an instance of a note whose home measure is
\* inactive, while an upcoming occurrence of that note in an inactive
\* measure is left out
C24_Witness ==
  /\ Published
  /\ \E j \in 1..Len(signal.notes) :
       ~ArrangementTrue(config, HomeMeasure(config, signal.notes[j].note))
  /\ \E o \in ScannedAnyMeasure(config, signal.currentTime) :
       /\ OccUpcoming(config, o, signal.currentTime)
       /\ ~ArrangementTrue(config, o.m)
       /\ ~Present(signal, config, o)

\* C25: in every snapshot beatInMeasure is currentBeat mod 4, the position
\* inside the measure with its fraction, and currentMeasure is
\* floor(currentBeat / 4) mod 16.  (beatInMeasure and currentMeasure are
\* held as whole numbers, currentBeat in thousandths of a beat.)
C25_BeatInMeasureIsBeatModFour ==
  Published =>
    /\ signal.beatInMeasure * Scale = signal.currentBeat % (4 * Scale)
    /\ signal.currentMeasure
         = (signal.currentBeat \div (4 * Scale)) % MeasuresPerLoop

\* The occurrences of loop iteration k in the active measures
ActiveOccurrencesOf(cfg, k) ==
  { [k |-> k, m |-> m, p |-> p] :
      m \in {x \in 0..15 : ArrangementTrue(cfg, x)},
      p \in 1..Len(cfg.notes.a) }

\* C26: a refresh scans the current loop iteration floor(now / loopLength)
\* and, exactly when (now mod loopLength) + lookaheadDistance > loopLength,
\* the next one, and no other: every instance lies in the current iteration,
\* or in the next when the lookahead crosses the loop's end; what is playing
\* or upcoming in the current iteration is listed, and so is what is
\* upcoming in the next when it is scanned; the list never holds more than
\* 2 * 16 * |config.notes| instances.  now mod loopLength is the remainder
\* with the sign of now.
C26_ScansCurrentLoopAndMaybeNext ==
  Published =>
    LET now == signal.currentTime
        L == (64 * 60 * Scale) \div config.bpm.n
        cur == now \div L
        crosses == JsRem(now, L) + ConfiguredLookahead(config) > L
    IN /\ \A j \in 1..Len(signal.notes) :
            \E k \in {cur, cur + 1}, m \in 0..15 :
              /\ signal.notes[j].startTime
                   = OccStart(config, [k |-> k, m |-> m,
                                       p |-> signal.notes[j].note]) * 1000
              /\ k = cur + 1 => crosses
       /\ \A o \in ActiveOccurrencesOf(config, cur) :
            (OccPlaying(config, o, now) \/ OccUpcoming(config, o, now))
              => Present(signal, config, o)
       /\ crosses =>
            \A o \in ActiveOccurrencesOf(config, cur + 1) :
              OccUpcoming(config, o, now) => Present(signal, config, o)
       /\ Len(signal.notes) <= 2 * MeasuresPerLoop * Len(config.notes.a)

\* C26 witness: a snapshot taken in a later loop iteration than the first,
\* where the lookahead crosses the loop's end, holding an instance of the
\* current iteration and one of the next
C26_Witness ==
  /\ Published
  /\ LET now == signal.currentTime
         L == (64 * 60 * Scale) \div config.bpm.n
         cur == now \div L
     IN /\ cur >= 1
        /\ JsRem(now, L) + ConfiguredLookahead(config) > L
        /\ \E i, j \in 1..Len(signal.notes) :
             /\ signal.notes[i].startTime < (cur + 1) * L * 1000
             /\ signal.notes[j].startTime >= (cur + 1) * L * 1000

\* C27: in every snapshot each of the three counts is the number of
\* instances of the notes list that pass the matching test at currentTime
\* (start <= now < end; now <= start < now + lookahead; now - retention <=
\* end <= now), so each count is at most notes.length and notes.length is at
\* most their sum.
C27_CountsMatchListedInstances ==
  Published =>
    LET now == signal.currentTime
        listed == 1..Len(signal.notes)
    IN /\ signal.currentlyPlayingNotesCount
            = Cardinality({j \in listed : InstPlaying(signal.notes[j], now)})
       /\ signal.upcomingNotesCount
            = Cardinality({j \in listed :
                             InstUpcoming(config, signal.notes[j], now)})
       /\ signal.recentlyPlayedNotesCount
            = Cardinality({j \in listed :
                             InstRecent(config, signal.notes[j], now)})
       /\ signal.currentlyPlayingNotesCount <= Len(signal.notes)
       /\ signal.upcomingNotesCount <= Len(signal.notes)
       /\ signal.recentlyPlayedNotesCount <= Len(signal.notes)
       /\ Len(signal.notes) <= CountsSum

\* The occurrences whose presence is followed from snapshot to snapshot:
\* those of the loop iterations the rising clock reaches, in the first and
\* the last measures of a loop
FollowedOccurrences ==
  { [k |-> k, m |-> m, p |-> p] :
      k \in {-2, -1, 0}, m \in {0, 1, 2, 3, 14, 15}, p \in {1, 2} }

\* Occurrence o of the configured notes is in the published notes list
Listed(o) ==
  /\ Published
  /\ o.p <= Len(config.notes.a)
  /\ Present(signal, config, o)

\* C28: under a clock that never goes back, an occurrence (same note, same
\* startTime) that has been in a snapshot and is missing from a later one
\* is in no snapshot after that.  (Checked from clock values before 0 on,
\* which covers the sessions whose clock is at 0 or later.)
C28_PresenceContiguous ==
  \A o \in FollowedOccurrences :
    [](Listed(o) => [](~Listed(o) => [](~Listed(o))))

\* The instances getNotesByStatus returned, from the snapshot it read
ReturnedInstances ==
  { returned.currentlyPlaying[i] : i \in 1..Len(returned.currentlyPlaying) }
    \cup { returned.upcoming[i] : i \in 1..Len(returned.upcoming) }
    \cup { returned.recentlyPlayed[i] : i \in 1..Len(returned.recentlyPlayed) }

\* C28 witness: a snapshot at a clock value of 0 or later from which an
\* occurrence is gone that an earlier snapshot of the session held (an
\* earlier call of getNotesByStatus returned it)
C28_Witness ==
  /\ Published
  /\ signal.currentTime >= 0
  /\ \E x \in ReturnedInstances :
       /\ x.startTime >= 0
       /\ \A j \in 1..Len(signal.notes) :
            ~(signal.notes[j].note = x.note
                /\ signal.notes[j].startTime = x.startTime)

\* How many of the three returned lists hold the instance x
ListsHolding(r, x) ==
  (IF \E i \in 1..Len(r.currentlyPlaying) : r.currentlyPlaying[i] = x
     THEN 1 ELSE 0)
    + (IF \E i \in 1..Len(r.upcoming) : r.upcoming[i] = x THEN 1 ELSE 0)
    + (IF \E i \in 1..Len(r.recentlyPlayed) : r.recentlyPlayed[i] = x
         THEN 1 ELSE 0)

\* C29: a call of getNotesByStatus leaves the signal as it is, and every
\* instance of the snapshot's notes list is in exactly one of the three
\* lists it returns; an instance whose startTime is the snapshot's
\* currentTime in ms is in currentlyPlaying and not in upcoming.
C29_GetNotesByStatusPartitions ==
  [][ returned' # returned =>
        /\ signal' = signal
        /\ \A j \in 1..Len(signal.notes) :
             LET x == signal.notes[j]
             IN /\ ListsHolding(returned', x) = 1
                /\ x.startTime = signal.currentTime * 1000 =>
                     /\ \E i \in 1..Len(returned'.currentlyPlaying) :
                          returned'.currentlyPlaying[i] = x
                     /\ \A i \in 1..Len(returned'.upcoming) :
                          returned'.upcoming[i] # x ]_vars

\* C30: in every snapshot activeMeasures is the ascending list of exactly
\* the indices i of 0..15 with arrangement[i] true (all sixteen without an
\* arrangement), and isCurrentMeasureActive is true exactly when
\* currentMeasure is an element of activeMeasures.
C30_ActiveMeasuresAndCurrentMeasure ==
  Published =>
    LET listed == {signal.activeMeasures[i] :
                     i \in 1..Len(signal.activeMeasures)}
    IN /\ listed = {m \in 0..15 : ArrangementTrue(config, m)}
       /\ \A i \in 1..(Len(signal.activeMeasures) - 1) :
            signal.activeMeasures[i] < signal.activeMeasures[i + 1]
       /\ signal.isCurrentMeasureActive <=> signal.currentMeasure \in listed

====
